---- MODULE Spec2Model ----
(***************************************************************************)
(* Model of scripts/gather_tree.py: the recursive directory walker         *)
(* scan_directory, its entry point gather_tree, save_to_json, print_report *)
(* and main.                                                               *)
(*                                                                         *)
(* A base name is a sequence of character codes, a path is a sequence of   *)
(* base names, so that str.lower() and the comparison of strings are       *)
(* computed as Python computes them.  The call stack of scan_directory is  *)
(* explicit; the visited sets are heap objects addressed by reference, so  *)
(* that visited.copy() and the passing of the same set object differ.      *)
(***************************************************************************)
EXTENDS Integers, Sequences, FiniteSets, TLC

VARIABLES fs, folder_path, mpc, stack, heap, ret, tree, output, report,
          exit_code, log, faults

vars == <<fs, folder_path, mpc, stack, heap, ret, tree, output, report,
          exit_code, log, faults>>

-----------------------------------------------------------------------------
(* Bounds of the model *)

\* most entries below the scanned root that exist in one filesystem
MaxEntries == 3
\* most OS errors the environment raises during one run
MaxFaults == 1
\* deepest call stack of scan_directory the model follows
MaxDepth == 6

-----------------------------------------------------------------------------
(* Base names and paths *)

\* "a", "B", "c", "f", "r", "t", "x", "lr" as character codes
nm_a == <<97>>
nm_B == <<66>>
nm_c == <<99>>
nm_f == <<102>>
nm_r == <<114>>
nm_t == <<116>>
nm_x == <<120>>
nm_lr == <<108, 114>>

p_r == <<nm_r>>
p_ra == <<nm_r, nm_a>>
p_rB == <<nm_r, nm_B>>
p_rc == <<nm_r, nm_c>>
p_rBa == <<nm_r, nm_B, nm_a>>
p_rBc == <<nm_r, nm_B, nm_c>>
p_t == <<nm_t>>
p_ta == <<nm_t, nm_a>>
p_x == <<nm_x>>
p_lr == <<nm_lr>>
p_f == <<nm_f>>

NoPath == <<>>

\* the paths whose kind varies from one filesystem to the next
VarPaths == {p_ra, p_rB, p_rc, p_rBa, p_rBc}

AllPaths == VarPaths \cup {p_r, p_t, p_ta, p_x, p_lr, p_f}

\* the values of the command line's folder_path argument
RootArgs == {p_r, p_lr, p_f, p_x}

\* Path.name
Name(p) == IF p = NoPath THEN <<>> ELSE p[Len(p)]

\* Path.parent
Parent(p) == SubSeq(p, 1, Len(p) - 1)

IsPrefix(p, q) == Len(p) <= Len(q) /\ SubSeq(q, 1, Len(p)) = p

\* p is a proper ancestor directory of q
IsAncestor(p, q) == Len(p) < Len(q) /\ IsPrefix(p, q)

-----------------------------------------------------------------------------
(* The filesystem: each path's kind, and a symlink's target *)

Entry(k, tg) == [kind |-> k, target |-> tg]

\* targets a symlink at p may have: a directory above it, a directory
\* beside the root, a sibling directory, a path that does not exist, and
\* (for the entries named c) the sibling named a, which may be a symlink
\* itself; no chain of links leads back to a link
LinkTargets(p) ==
    ({p_r, p_t, p_rB, p_x} \cup
     (IF Name(p) = nm_c THEN {Append(Parent(p), nm_a)} ELSE {})) \ {p}

EntryChoices(p) ==
    {Entry("none", NoPath), Entry("file", NoPath), Entry("other", NoPath)}
    \cup (IF p = p_rB THEN {Entry("dir", NoPath)} ELSE {})
    \cup {Entry("symlink", tg) : tg \in LinkTargets(p)}

FixedFs == [p \in AllPaths \ VarPaths |->
              CASE p = p_r -> Entry("dir", NoPath)
                [] p = p_t -> Entry("dir", NoPath)
                [] p = p_ta -> Entry("file", NoPath)
                [] p = p_lr -> Entry("symlink", p_r)
                [] p = p_f -> Entry("file", NoPath)
                [] OTHER -> Entry("none", NoPath)]

\* the entries of r/B: none unless r/B is a directory
BelowChoices(p, eB) ==
    IF eB.kind = "dir" THEN EntryChoices(p) ELSE {Entry("none", NoPath)}

Existing(w) == Cardinality({p \in DOMAIN w : w[p].kind # "none"})

VarFs(ea, eB, ec, eBa, eBc) ==
    (p_ra :> ea) @@ (p_rB :> eB) @@ (p_rc :> ec) @@ (p_rBa :> eBa) @@ (p_rBc :> eBc)

FileSystems ==
    {FixedFs @@ w : w \in
        {v \in UNION { UNION { UNION { UNION {
                {VarFs(ea, eB, ec, eBa, eBc) : eBc \in BelowChoices(p_rBc, eB)} :
                    eBa \in BelowChoices(p_rBa, eB)} :
                    ec \in EntryChoices(p_rc)} :
                    eB \in EntryChoices(p_rB)} :
                    ea \in EntryChoices(p_ra)} :
            Existing(v) <= MaxEntries}}

KindOf(p) == IF p \in DOMAIN fs THEN fs[p].kind ELSE "none"

\* Path.is_symlink()
is_symlink(p) == KindOf(p) = "symlink"

\* Path.resolve(): the canonical path, following every link
RECURSIVE resolve(_)
resolve(p) == IF is_symlink(p) THEN resolve(fs[p].target) ELSE p

\* Path.exists(), Path.is_file(), Path.is_dir(): all follow links
exists(p) == KindOf(resolve(p)) # "none"
is_file(p) == KindOf(resolve(p)) = "file"
is_dir(p) == KindOf(resolve(p)) = "dir"

\* the entries Path.iterdir() yields, in no order
DirEntries(p) ==
    {q \in AllPaths : Len(q) = Len(p) + 1 /\ IsPrefix(p, q) /\ KindOf(q) # "none"}

\* the orders in which the listing of a directory can yield its entries
Listings(S) ==
    {s \in [1..Cardinality(S) -> S] : \A i, j \in DOMAIN s : i # j => s[i] # s[j]}

-----------------------------------------------------------------------------
(* str.lower(), string comparison and sorted() *)

LowerChar(ch) == IF ch \in 65..90 THEN ch + 32 ELSE ch

\* str.lower()
Lower(s) == [i \in 1..Len(s) |-> LowerChar(s[i])]

\* s < t for strings: lexicographic on character codes
RECURSIVE StrLess(_, _)
StrLess(s, t) ==
    IF t = <<>> THEN FALSE
    ELSE IF s = <<>> THEN TRUE
    ELSE IF s[1] # t[1] THEN s[1] < t[1]
    ELSE StrLess(Tail(s), Tail(t))

\* the key without lower()
RawKey(p) == Name(p)

\* key=lambda p: p.name.lower()
SortKey(p) == Lower(Name(p))

\* one step of the stable sort: x goes behind every element not greater
RECURSIVE InsertSorted(_, _)
InsertSorted(x, s) ==
    IF s = <<>> THEN <<x>>
    ELSE IF StrLess(SortKey(x), SortKey(s[1])) THEN <<x>> \o s
    ELSE <<s[1]>> \o InsertSorted(x, Tail(s))

\* sorted(listing, key=...): stable
RECURSIVE sorted(_)
sorted(s) ==
    IF s = <<>> THEN <<>>
    ELSE InsertSorted(s[Len(s)], sorted(SubSeq(s, 1, Len(s) - 1)))

-----------------------------------------------------------------------------
(* Nodes *)

FileNode(n) == [name |-> n, type |-> "file"]

DirectoryNode(n, ch) == [name |-> n, type |-> "folder", children |-> ch]

\* isinstance(node, DirectoryNode)
IsDirectoryNode(node) == "children" \in DOMAIN node

NoNode == [name |-> <<>>, type |-> "none"]

NoTree == [root |-> NoNode]

TreeStructure(root) == [root |-> root]

-----------------------------------------------------------------------------
(* Call frames, return values, exceptions, log records *)

\* a frame of scan_directory: where it stands (pc), its arguments path and
\* visited (a reference into heap), and its locals
\*   "enter"  called, nothing executed yet            (line 71)
\*   "follow" waits for scan_directory(target)        (line 86)
\*   "loop"   at the head of  for entry in entries    (line 111)
\*   "wait"   waits for scan_directory(entry, copy)   (line 113)
Frame(pc, path, visited, resolved, entries, idx, children) ==
    [pc |-> pc, path |-> path, visited |-> visited, resolved |-> resolved,
     entries |-> entries, idx |-> idx, children |-> children]

NewFrame(path, visited) == Frame("enter", path, visited, NoPath, <<>>, 0, <<>>)

NoExc == [type |-> "none", op |-> "none", path |-> NoPath]

OSError(op, p) == [type |-> "OSError", op |-> op, path |-> p]

NoRet == [kind |-> "none", val |-> NoNode, exc |-> NoExc]

Return(node) == [kind |-> "value", val |-> node, exc |-> NoExc]

Raise(e) == [kind |-> "raise", val |-> NoNode, exc |-> e]

LogRec(level, msg, p) == [level |-> level, msg |-> msg, path |-> p]

top == stack[Len(stack)]

Pop == SubSeq(stack, 1, Len(stack) - 1)

SetTop(f) == [stack EXCEPT ![Len(stack)] = f]

\* the environment may still raise an OS error
MayFault == faults < MaxFaults

-----------------------------------------------------------------------------
(* The visited sets *)

\* the add left out
VisitedAddNothing(set, p) == set

\* visited.add(p)
VisitedAdd(set, p) == set \cup {p}

\* a membership test that never matches (a str looked up among Paths)
InVisitedNever(p, ref) == FALSE

\* p in visited
InVisited(p, ref) == p \in heap[ref]

\* the heap after visited.add(p) on the set at ref
HeapAdd(ref, p) == [heap EXCEPT ![ref] = VisitedAdd(heap[ref], p)]

\* the heap after visited.discard(p) on the set at ref
HeapDiscard(h, ref, p) == [h EXCEPT ![ref] = h[ref] \ {p}]

\* passing the set itself: no new object, the same reference
ShareVisited(ref) == [heap |-> heap, ref |-> ref]

\* visited.copy(): a new set object with the same elements
CopyVisited(ref) == [heap |-> Append(heap, heap[ref]), ref |-> Len(heap) + 1]

-----------------------------------------------------------------------------
(* Initial state: a filesystem, the command line, nothing run yet *)

Init ==
    /\ fs \in FileSystems
    /\ folder_path = NoPath
    /\ mpc = "start"
    /\ stack = <<>>
    /\ heap = <<>>
    /\ ret = NoRet
    /\ tree = NoTree
    /\ output = [written |-> FALSE, doc |-> NoTree]
    /\ report = [files |-> 0, dirs |-> 0, items |-> 0]
    /\ exit_code = -1
    /\ log = <<>>
    /\ faults = 0

-----------------------------------------------------------------------------
(* scan_directory, one action per path through a call *)

Entered == stack # <<>> /\ top.pc = "enter" /\ ret.kind = "none"

\* lines 76, 130-132: is_symlink() raises an OS error
ScanStatError ==
    /\ Entered /\ MayFault
    /\ faults' = faults + 1
    /\ log' = Append(log, LogRec("error", "Error accessing", top.path))
    /\ ret' = Raise(OSError("stat", top.path))
    /\ stack' = Pop
    /\ UNCHANGED <<fs, folder_path, mpc, heap, tree, output, report, exit_code>>

\* lines 76-78, 87-90: resolve() of the link raises OSError or RuntimeError
ScanSymlinkResolveFail ==
    /\ Entered /\ MayFault
    /\ is_symlink(top.path)
    /\ faults' = faults + 1
    /\ log' = Append(log, LogRec("warning", "Could not resolve symlink", top.path))
    /\ ret' = Return(FileNode(Name(top.path)))
    /\ stack' = Pop
    /\ UNCHANGED <<fs, folder_path, mpc, heap, tree, output, report, exit_code>>

\* lines 76-82: the link's target is in visited
ScanSymlinkCycle ==
    /\ Entered
    /\ is_symlink(top.path)
    /\ LET target == resolve(top.path) IN
        /\ InVisited(target, top.visited)
        /\ log' = Append(log, LogRec("warning", "Symlink cycle detected", top.path))
        /\ ret' = Return(FileNode(Name(target)))
    /\ stack' = Pop
    /\ UNCHANGED <<fs, folder_path, mpc, heap, tree, output, report, exit_code, faults>>

\* lines 76-86: visited.add(target); scan_directory(target, visited)
ScanSymlinkFollow ==
    /\ Entered
    /\ is_symlink(top.path)
    /\ Len(stack) < MaxDepth
    /\ LET target == resolve(top.path) IN
        /\ ~InVisited(target, top.visited)
        /\ heap' = HeapAdd(top.visited, target)
        /\ stack' = Append(SetTop([top EXCEPT !.pc = "follow", !.resolved = target]),
                           NewFrame(target, top.visited))
    /\ UNCHANGED <<fs, folder_path, mpc, ret, tree, output, report, exit_code, log, faults>>

\* line 86: return what the call on the target returned
ScanSymlinkReturn ==
    /\ stack # <<>> /\ top.pc = "follow" /\ ret.kind = "value"
    /\ stack' = Pop
    /\ UNCHANGED <<fs, folder_path, mpc, heap, ret, tree, output, report, exit_code, log, faults>>

\* lines 86-90: the call on the target raised; the handler of the
\* resolution catches it
ScanSymlinkRaise ==
    /\ stack # <<>> /\ top.pc = "follow" /\ ret.kind = "raise"
    /\ log' = Append(log, LogRec("warning", "Could not resolve symlink", top.path))
    /\ ret' = Return(FileNode(Name(top.path)))
    /\ stack' = Pop
    /\ UNCHANGED <<fs, folder_path, mpc, heap, tree, output, report, exit_code, faults>>

\* lines 92-97: the canonical path is in visited
ScanCycle ==
    /\ Entered
    /\ ~is_symlink(top.path)
    /\ LET resolved_path == resolve(top.path) IN
        /\ InVisited(resolved_path, top.visited)
        /\ log' = Append(log, LogRec("warning", "Cycle detected", top.path))
        /\ ret' = Return(FileNode(Name(resolved_path)))
    /\ stack' = Pop
    /\ UNCHANGED <<fs, folder_path, mpc, heap, tree, output, report, exit_code, faults>>

\* holds of a call that passes both cycle checks
Fresh == Entered /\ ~is_symlink(top.path) /\ ~InVisited(resolve(top.path), top.visited)

\* lines 99-101, 130-132: is_file() or is_dir() raises an OS error
ScanClassifyError ==
    /\ Fresh /\ MayFault
    /\ faults' = faults + 1
    /\ heap' = HeapAdd(top.visited, resolve(top.path))
    /\ log' = Append(log, LogRec("error", "Error accessing", top.path))
    /\ ret' = Raise(OSError("stat", top.path))
    /\ stack' = Pop
    /\ UNCHANGED <<fs, folder_path, mpc, tree, output, report, exit_code>>

\* lines 99-102: a regular file
ScanFile ==
    /\ Fresh
    /\ is_file(top.path)
    /\ heap' = HeapAdd(top.visited, resolve(top.path))
    /\ ret' = Return(FileNode(Name(resolve(top.path))))
    /\ stack' = Pop
    /\ UNCHANGED <<fs, folder_path, mpc, tree, output, report, exit_code, log, faults>>

\* lines 99-104, 126-128: neither a file nor a directory
ScanUnknown ==
    /\ Fresh
    /\ ~is_file(top.path) /\ ~is_dir(top.path)
    /\ heap' = HeapAdd(top.visited, resolve(top.path))
    /\ log' = Append(log, LogRec("warning", "Unknown path type", top.path))
    /\ ret' = Return(FileNode(Name(resolve(top.path))))
    /\ stack' = Pop
    /\ UNCHANGED <<fs, folder_path, mpc, tree, output, report, exit_code, faults>>

\* lines 99-109: a directory; its listing, in whatever order, sorted
ScanListDir ==
    /\ Fresh
    /\ is_dir(top.path)
    /\ heap' = HeapAdd(top.visited, resolve(top.path))
    /\ \E listing \in Listings(DirEntries(top.path)) :
         stack' = SetTop([top EXCEPT !.pc = "loop",
                                     !.resolved = resolve(top.path),
                                     !.entries = sorted(listing),
                                     !.idx = 1,
                                     !.children = <<>>])
    /\ UNCHANGED <<fs, folder_path, mpc, ret, tree, output, report, exit_code, log, faults>>

\* the listing error logged and swallowed: an empty directory is scanned
ScanListErrorSwallowed ==
    /\ Fresh /\ MayFault
    /\ is_dir(top.path)
    /\ faults' = faults + 1
    /\ heap' = HeapAdd(top.visited, resolve(top.path))
    /\ log' = Append(log, LogRec("error", "Could not read directory", top.path))
    /\ stack' = SetTop([top EXCEPT !.pc = "loop", !.resolved = resolve(top.path),
                                   !.entries = <<>>, !.idx = 1, !.children = <<>>])
    /\ UNCHANGED <<fs, folder_path, mpc, ret, tree, output, report, exit_code>>

\* lines 99-109, 119-121, 130-132: iterdir() raises an OS error
ScanListError ==
    /\ Fresh /\ MayFault
    /\ is_dir(top.path)
    /\ faults' = faults + 1
    /\ heap' = HeapAdd(top.visited, resolve(top.path))
    /\ log' = log \o <<LogRec("error", "Could not read directory", top.path),
                       LogRec("error", "Error accessing", top.path)>>
    /\ ret' = Raise(OSError("iterdir", top.path))
    /\ stack' = Pop
    /\ UNCHANGED <<fs, folder_path, mpc, tree, output, report, exit_code>>

\* lines 111-113: scan_directory(entry, visited.copy())
ScanEntry ==
    /\ stack # <<>> /\ top.pc = "loop" /\ ret.kind = "none"
    /\ top.idx <= Len(top.entries)
    /\ Len(stack) < MaxDepth
    /\ LET passed == CopyVisited(top.visited) IN
        /\ heap' = passed.heap
        /\ stack' = Append(SetTop([top EXCEPT !.pc = "wait"]),
                           NewFrame(top.entries[top.idx], passed.ref))
    /\ UNCHANGED <<fs, folder_path, mpc, ret, tree, output, report, exit_code, log, faults>>

\* line 114: children.append(child)
ScanChildReturn ==
    /\ stack # <<>> /\ top.pc = "wait" /\ ret.kind = "value"
    /\ stack' = SetTop([top EXCEPT !.pc = "loop",
                                   !.idx = top.idx + 1,
                                   !.children = Append(top.children, ret.val)])
    /\ ret' = NoRet
    /\ UNCHANGED <<fs, folder_path, mpc, heap, tree, output, report, exit_code, log, faults>>

\* the loop without its handler: the entry's error leaves scan_directory
\* through lines 119-121 and 130-132
ScanChildErrorPropagate ==
    /\ stack # <<>> /\ top.pc = "wait" /\ ret.kind = "raise"
    /\ log' = log \o <<LogRec("error", "Could not read directory", top.path),
                       LogRec("error", "Error accessing", top.path)>>
    /\ stack' = Pop
    /\ UNCHANGED <<fs, folder_path, mpc, heap, ret, tree, output, report, exit_code, faults>>

\* lines 115-117: the entry raised; warn and continue with the next entry
ScanChildError ==
    /\ stack # <<>> /\ top.pc = "wait" /\ ret.kind = "raise"
    /\ log' = Append(log, LogRec("warning", "Could not access", top.entries[top.idx]))
    /\ stack' = SetTop([top EXCEPT !.pc = "loop", !.idx = top.idx + 1])
    /\ ret' = NoRet
    /\ UNCHANGED <<fs, folder_path, mpc, heap, tree, output, report, exit_code, faults>>

\* lines 123-124: visited.discard(resolved_path); return the DirectoryNode
ScanDirReturn ==
    /\ stack # <<>> /\ top.pc = "loop" /\ ret.kind = "none"
    /\ top.idx > Len(top.entries)
    /\ heap' = HeapDiscard(heap, top.visited, top.resolved)
    /\ ret' = Return(DirectoryNode(Name(top.resolved), top.children))
    /\ stack' = Pop
    /\ UNCHANGED <<fs, folder_path, mpc, tree, output, report, exit_code, log, faults>>

scan_directory ==
    \/ ScanStatError
    \/ ScanSymlinkResolveFail
    \/ ScanSymlinkCycle
    \/ ScanSymlinkFollow
    \/ ScanSymlinkReturn
    \/ ScanSymlinkRaise
    \/ ScanCycle
    \/ ScanClassifyError
    \/ ScanFile
    \/ ScanUnknown
    \/ ScanListDir
    \/ ScanListError
    \/ ScanEntry
    \/ ScanChildReturn
    \/ ScanChildError
    \/ ScanDirReturn

-----------------------------------------------------------------------------
(* gather_tree, save_to_json, print_report, main *)

\* the check of line 152 left out
MissingOnly(p) == ~exists(p)

\* gather_tree, lines 149-153: the two checks that raise ValueError
InvalidFolder(p) == ~exists(p) \/ ~is_dir(p)

\* the wrapper named after the node instead of the root path
WrapUnderNodeName(p, root) ==
    IF IsDirectoryNode(root) THEN TreeStructure(root)
    ELSE TreeStructure(DirectoryNode(root.name, <<root>>))

\* gather_tree, lines 159-163: a FileNode is wrapped in a directory
WrapRoot(p, root) ==
    IF IsDirectoryNode(root) THEN TreeStructure(root)
    ELSE TreeStructure(DirectoryNode(Name(p), <<root>>))

Pair(f, d) == [files |-> f, dirs |-> d]

\* the count that does not descend: every child taken for one file
count_shallow(node) ==
    IF IsDirectoryNode(node) THEN Pair(Len(node.children), 1) ELSE Pair(1, 0)

\* print_report.count_nodes, lines 184-196
RECURSIVE count_nodes(_)
RECURSIVE CountChildren(_, _, _)
count_nodes(node) ==
    IF IsDirectoryNode(node)
    THEN CountChildren(node.children, 1, Pair(0, 1))
    ELSE Pair(1, 0)

\* the loop of lines 189-192 from child i on, acc the counts so far
CountChildren(children, i, acc) ==
    IF i > Len(children) THEN acc
    ELSE LET fd == count_nodes(children[i]) IN
         CountChildren(children, i + 1, Pair(acc.files + fd.files, acc.dirs + fd.dirs))

\* main, lines 229, 241, 258-260: gather_tree raises ValueError before any scan
MainInvalid ==
    /\ mpc = "start"
    /\ \E arg \in RootArgs :
        /\ InvalidFolder(arg)
        /\ folder_path' = arg
        /\ log' = Append(log, LogRec("error", "Invalid input", arg))
    /\ exit_code' = 1
    /\ mpc' = "done"
    /\ UNCHANGED <<fs, stack, heap, ret, tree, output, report, faults>>

\* lines 241, 155-157: scan_directory(folder_path), visited a new empty set
MainGather ==
    /\ mpc = "start"
    /\ \E arg \in RootArgs :
        /\ ~InvalidFolder(arg)
        /\ folder_path' = arg
        /\ log' = Append(log, LogRec("info", "Scanning directory", arg))
        /\ stack' = <<NewFrame(arg, 1)>>
    /\ heap' = <<{}>>
    /\ mpc' = "gather"
    /\ UNCHANGED <<fs, ret, tree, output, report, exit_code, faults>>

\* lines 157-163: gather_tree returns the tree
GatherReturn ==
    /\ mpc = "gather" /\ stack = <<>> /\ ret.kind = "value"
    /\ tree' = WrapRoot(folder_path, ret.val)
    /\ ret' = NoRet
    /\ mpc' = "save"
    /\ UNCHANGED <<fs, folder_path, stack, heap, output, report, exit_code, log, faults>>

\* lines 157, 261-263: the scan of the root raised
MainOSError ==
    /\ mpc = "gather" /\ stack = <<>> /\ ret.kind = "raise"
    /\ log' = Append(log, LogRec("error", "OS error", ret.exc.path))
    /\ ret' = NoRet
    /\ exit_code' = 1
    /\ mpc' = "done"
    /\ UNCHANGED <<fs, folder_path, stack, heap, tree, output, report, faults>>

\* save_to_json, lines 174-179
SaveToJson ==
    /\ mpc = "save"
    /\ output' = [written |-> TRUE, doc |-> tree]
    /\ log' = log \o <<LogRec("info", "Saving tree structure", NoPath),
                       LogRec("info", "Tree structure saved", NoPath)>>
    /\ mpc' = "report"
    /\ UNCHANGED <<fs, folder_path, stack, heap, ret, tree, report, exit_code, faults>>

\* lines 174-176, 261-263: open(output_path, 'w') raises an OS error
SaveFail ==
    /\ mpc = "save"
    /\ log' = log \o <<LogRec("info", "Saving tree structure", NoPath),
                       LogRec("error", "OS error", NoPath)>>
    /\ exit_code' = 1
    /\ mpc' = "done"
    /\ UNCHANGED <<fs, folder_path, stack, heap, ret, tree, output, report, faults>>

\* print_report and the end of main, lines 198-207, 253-256
PrintReport ==
    /\ mpc = "report"
    /\ LET fd == count_nodes(tree.root) IN
         report' = [files |-> fd.files, dirs |-> fd.dirs, items |-> fd.files + fd.dirs]
    /\ log' = Append(log, LogRec("info", "Script completed successfully", NoPath))
    /\ exit_code' = 0
    /\ mpc' = "done"
    /\ UNCHANGED <<fs, folder_path, stack, heap, ret, tree, output, faults>>

main ==
    \/ MainInvalid
    \/ MainGather
    \/ GatherReturn
    \/ MainOSError
    \/ SaveToJson
    \/ SaveFail
    \/ PrintReport

Next == scan_directory \/ main

Spec == Init /\ [][Next]_vars

\* the interpreter runs the one thread to its end
FairSpec == Spec /\ WF_vars(Next)

-----------------------------------------------------------------------------
(* Vocabulary of the properties *)

Frames == 1..Len(stack)

\* the frames that are building a DirectoryNode
Expanding(k) == stack[k].pc \in {"loop", "wait"}

Logged(level, msg, p) == \E i \in DOMAIN log : log[i] = LogRec(level, msg, p)

\* the entry was skipped by the loop of its directory
Skipped(e) == Logged("warning", "Could not access", e)

\* the listing of the directory failed
ListFailed(p) == Logged("error", "Could not read directory", p)

LastLog == IF log = <<>> THEN LogRec("none", "none", NoPath) ELSE log[Len(log)]

\* the names the node built from entry e can carry
NodeNames(e) ==
    IF is_symlink(e) THEN {Name(resolve(e)), Name(e)} ELSE {Name(e)}

\* how many of the first n entries of frame f were skipped
SkippedBefore(f, n) ==
    Cardinality({j \in 1..n : j <= Len(f.entries) /\ Skipped(f.entries[j])})

\* non-decreasing under the comparison of strings
NonDecreasing(keys) ==
    \A i, j \in DOMAIN keys : i < j => ~StrLess(keys[j], keys[i])

ChildKeys(children) == [i \in DOMAIN children |-> Lower(children[i].name)]

EntryKeys(entries) == [i \in DOMAIN entries |-> Lower(Name(entries[i]))]

\* the positions of the nodes of a tree: the sequences of child indices
RECURSIVE Positions(_)
Positions(node) ==
    {<<>>} \cup
    (IF IsDirectoryNode(node)
     THEN UNION {{<<i>> \o q : q \in Positions(node.children[i])} :
                    i \in DOMAIN node.children}
     ELSE {})

RECURSIVE NodeAt(_, _)
NodeAt(node, pos) ==
    IF pos = <<>> THEN node ELSE NodeAt(node.children[pos[1]], Tail(pos))

\* a child of the call on top of the stack has just returned a node
ChildReturned == stack # <<>> /\ top.pc = "wait" /\ ret.kind = "value"

CurrentEntry == top.entries[top.idx]

\* the canonical paths of the directories being expanded, up to frame k
OnPath(k) == {stack[j].resolved : j \in {i \in 1..k : Expanding(i)}}

-----------------------------------------------------------------------------
(* The claims *)

\* C1: two sibling symlinks with the same canonical target directory T,
\* T neither their directory nor an ancestor of it, are each returned as a
\* DirectoryNode holding the scanned entries of T, not as a placeholder
\* FileNode.
C1_SiblingSymlinksExpanded ==
    (/\ ChildReturned
     /\ faults = 0
     /\ is_symlink(CurrentEntry)
     /\ is_dir(CurrentEntry)
     /\ resolve(CurrentEntry) # top.resolved
     /\ ~IsAncestor(resolve(CurrentEntry), top.resolved)
     /\ \E i \in DOMAIN top.entries :
            /\ i # top.idx
            /\ is_symlink(top.entries[i])
            /\ resolve(top.entries[i]) = resolve(CurrentEntry))
    => /\ IsDirectoryNode(ret.val)
       /\ Len(ret.val.children) = Cardinality(DirEntries(resolve(CurrentEntry)))

Done == mpc = "done"

\* a link to a directory on the current path has been scanned: it is a
\* terminal FileNode named after the repeated canonical path (after the
\* link itself when the resolution raised)
C2_CyclePlaceholder ==
    (/\ ChildReturned
     /\ is_symlink(CurrentEntry)
     /\ resolve(CurrentEntry) \in OnPath(Len(stack)))
    => \/ ret.val = FileNode(Name(resolve(CurrentEntry)))
       \/ /\ ret.val = FileNode(Name(CurrentEntry))
          /\ LastLog = LogRec("warning", "Could not resolve symlink", CurrentEntry)

\* nothing is raised unless the environment raised an OS error
C2_NoRaiseByCycle == ret.kind = "raise" => faults > 0

\* without an OS error the scan of a valid root has returned a node when
\* the run has ended
C2_ReturnsNode ==
    (Done /\ faults = 0 /\ ~InvalidFolder(folder_path)) => tree # NoTree

\* C2: on every filesystem, also one where links lead back to an ancestor
\* directory, the run ends (the recursion is finite), the cycle raises no
\* exception, and the branch ends in a terminal FileNode at the repeated
\* canonical path.
C2_CycleTerminates ==
    /\ <>Done
    /\ [](C2_CyclePlaceholder /\ C2_NoRaiseByCycle /\ C2_ReturnsNode)

\* C2 witness: a run ended normally in which the chain r/B/c -> r/B/a -> r
\* was cut at the repeated directory r
C2_Witness ==
    /\ Done /\ exit_code = 0 /\ faults = 0
    /\ Logged("warning", "Symlink cycle detected", p_rBc)
    /\ fs[p_rBc].target = p_rBa
    /\ fs[p_rBa].target = p_r

\* C3 as stated: the children of every DirectoryNode are in non-decreasing
\* order of the children's lowercased names.
C3_ChildrenSortedByName ==
    \A k \in Frames : Expanding(k) => NonDecreasing(ChildKeys(stack[k].children))

\* C3 amended: the entries of a directory are all of its listing, scanned
\* in non-decreasing order of the entries' lowercased names whatever order
\* the listing yields them in, and the children are the nodes of the
\* entries not skipped, in that order; a child carries its entry's name, or
\* its entry's target's base name when the entry is a symlink.
C3_ChildrenInEntryOrder ==
    \A k \in Frames : Expanding(k) =>
        LET f == stack[k] IN
        /\ NonDecreasing(EntryKeys(f.entries))
        /\ {f.entries[i] : i \in DOMAIN f.entries} = DirEntries(f.path)
        /\ Len(f.entries) = Cardinality(DirEntries(f.path))
        /\ \A i \in 1..(f.idx - 1) :
              ~Skipped(f.entries[i]) =>
                 /\ i - SkippedBefore(f, i) \in DOMAIN f.children
                 /\ f.children[i - SkippedBefore(f, i)].name \in NodeNames(f.entries[i])
                 /\ ~is_symlink(f.entries[i]) =>
                       f.children[i - SkippedBefore(f, i)].name = Name(f.entries[i])

\* C3 witness: r was listed as a, B, c, a being a link to t; all three
\* children are built and the first is named t
C3_Witness ==
    /\ stack # <<>> /\ top.pc = "loop" /\ top.idx = 4
    /\ top.entries = <<p_ra, p_rB, p_rc>>
    /\ is_symlink(p_ra) /\ resolve(p_ra) = p_t
    /\ Len(top.children) = 3
    /\ top.children[1].name = nm_t

\* C4: no directory is expanded as a DirectoryNode below a DirectoryNode
\* built from the same canonical path.
C4_NoRepeatOnBranch ==
    \A i, j \in Frames :
        (i < j /\ Expanding(i) /\ Expanding(j)) => stack[i].resolved # stack[j].resolved

\* C4 witness: an entry of r that is a link back to r has returned the
\* placeholder FileNode
C4_Witness ==
    /\ ChildReturned
    /\ Len(stack) = 2
    /\ is_symlink(CurrentEntry)
    /\ resolve(CurrentEntry) = stack[1].resolved
    /\ ret.val = FileNode(nm_r)

\* the write of the output failed: the last thing main logged
SaveFailed == LastLog = LogRec("error", "OS error", NoPath)

SomeEntrySkipped == \E e \in AllPaths : Skipped(e)

\* C5 as stated: whenever an entry raised, the run ends with exit code 0.
C5_EntryErrorExitZero == (Done /\ SomeEntrySkipped) => exit_code = 0

\* C5 amended: when the scan of an entry E of D raises an OS error, E is
\* left out of D's children, the entries before and after E are scanned and
\* kept in order, scan_directory on D raises nothing and returns a
\* DirectoryNode, and the run ends with exit code 0 unless writing the
\* output file fails.
C5_EntryErrorSkipped ==
    /\ [](/\ \A k \in Frames : Expanding(k) =>
                LET f == stack[k] IN
                /\ Len(f.children) = (f.idx - 1) - SkippedBefore(f, f.idx - 1)
                /\ \A i \in 1..(f.idx - 1) :
                      /\ Skipped(f.entries[i]) \/ i - SkippedBefore(f, i) \in DOMAIN f.children
                      /\ ~Skipped(f.entries[i]) =>
                            f.children[i - SkippedBefore(f, i)].name
                                \in NodeNames(f.entries[i])
          /\ (Done /\ SomeEntrySkipped) =>
                /\ IsDirectoryNode(tree.root)
                /\ exit_code = 0 \/ SaveFailed)
    /\ [][/\ (stack # <<>> /\ top.pc = "wait" /\ ret.kind = "raise") =>
                /\ Len(stack') = Len(stack)
                /\ stack'[Len(stack)] = [top EXCEPT !.pc = "loop", !.idx = top.idx + 1]
                /\ log' = Append(log, LogRec("warning", "Could not access", CurrentEntry))
          /\ (stack # <<>> /\ Expanding(Len(stack)) /\ Len(stack') < Len(stack)) =>
                /\ top.idx > Len(top.entries)
                /\ ret' = Return(DirectoryNode(Name(top.resolved), top.children))]_vars

\* C5 witness: the scan of r/B raised between r/a and r/c; the run ended
\* with exit code 0 and the two other children
C5_Witness ==
    /\ Done /\ exit_code = 0
    /\ Skipped(p_rB)
    /\ tree.root = DirectoryNode(nm_r, <<FileNode(nm_a), FileNode(nm_c)>>)

\* save_to_json was entered
SaveInvoked == Logged("info", "Saving tree structure", NoPath)

\* C6: with a source path that does not exist or is not a directory,
\* gather_tree fails before any scan, main returns 1 and save_to_json is
\* never invoked, so no output file is written; in every run the output is
\* written only after gather_tree has returned a tree.
C6_InvalidSourceNoOutput ==
    /\ (folder_path # NoPath /\ (~exists(folder_path) \/ ~is_dir(folder_path))) =>
          /\ Done /\ exit_code = 1
          /\ stack = <<>> /\ heap = <<>> /\ ret = NoRet /\ tree = NoTree
          /\ ~SaveInvoked /\ ~output.written
          /\ log = <<LogRec("error", "Invalid input", folder_path)>>
    /\ SaveInvoked => (tree # NoTree /\ mpc \in {"report", "done"})
    /\ output.written =>
          /\ tree # NoTree /\ output.doc = tree
          /\ mpc \in {"report", "done"}
    /\ (mpc \in {"start", "gather"}) => (tree = NoTree /\ ~output.written)

\* C6 witness: the source path is a regular file; the run ended with 1
C6_Witness ==
    /\ Done /\ folder_path = p_f /\ exit_code = 1 /\ ~output.written

\* C7: whenever gather_tree returns, the root of the tree is a
\* DirectoryNode: the node scan_directory returned if that is a
\* DirectoryNode, else a DirectoryNode named after the base name of the
\* root path with that node as its only child.
C7_RootIsDirectory ==
    /\ [](tree # NoTree =>
            /\ IsDirectoryNode(tree.root) /\ tree.root.type = "folder"
            /\ mpc \in {"save", "report", "done"})
    /\ [][(mpc = "gather" /\ mpc' = "save") =>
            /\ ret.kind = "value"
            /\ IsDirectoryNode(ret.val) => tree'.root = ret.val
            /\ ~IsDirectoryNode(ret.val) =>
                  tree'.root = [name |-> Name(folder_path), type |-> "folder",
                                children |-> <<ret.val>>]]_vars

\* C7 witness: the root path is the link lr -> r; the root is the wrapper
C7_Witness ==
    /\ mpc = "save" /\ folder_path = p_lr
    /\ tree.root = DirectoryNode(nm_lr, <<FileNode(nm_r)>>)

NumFiles(root) == Cardinality({pos \in Positions(root) : ~IsDirectoryNode(NodeAt(root, pos))})

NumDirs(root) == Cardinality({pos \in Positions(root) : IsDirectoryNode(NodeAt(root, pos))})

\* C8: count_nodes on the root returns (N, M), N the number of FileNodes
\* and M the number of DirectoryNodes of the tree, the root included, so
\* that the reported total is the number of nodes of the tree.
C8_CountNodes ==
    (Done /\ exit_code = 0) =>
        /\ report.files = NumFiles(tree.root)
        /\ report.dirs = NumDirs(tree.root)
        /\ report.items = Cardinality(Positions(tree.root))

\* C8 witness: a reported tree of two directories and two files, one of
\* the files below the inner directory
C8_Witness ==
    /\ Done /\ exit_code = 0
    /\ report.dirs = 2 /\ report.files = 2
    /\ \E i \in DOMAIN tree.root.children :
          /\ IsDirectoryNode(tree.root.children[i])
          /\ Len(tree.root.children[i].children) = 1

\* C9: the visited set is branch-local: while the entries of D are scanned
\* the visited set of D holds the canonical paths of D and of its
\* ancestors on the current path and nothing else, and so does the set
\* handed to each entry at the start of its scan; no two calls below
\* different entries, nor a directory and its entry, share a set.
C9_VisitedBranchLocal ==
    \A k \in Frames :
        /\ Expanding(k) => heap[stack[k].visited] = OnPath(k)
        /\ (k > 1 /\ stack[k - 1].pc = "wait") =>
              /\ stack[k].visited # stack[k - 1].visited
              /\ stack[k].pc = "enter" => heap[stack[k].visited] = OnPath(k - 1)
        /\ Expanding(k) => OnPath(k) = {SubSeq(stack[k].resolved, 1, n) : n \in 1..Len(stack[k].resolved)}

\* C9 witness: the scan of r/B/c starts after its sibling r/B/a was
\* scanned and had added itself to its own set
C9_Witness ==
    /\ Len(stack) = 3 /\ top.pc = "enter" /\ top.path = p_rBc
    /\ stack[2].children # <<>>
    /\ heap[top.visited] = {p_r, p_rB}
    /\ \E ref \in DOMAIN heap : p_rBa \in heap[ref]

\* C10: when the listing of a directory P fails, scan_directory on P
\* returns no node and the error reaches its caller: for the root, main
\* returns 1 and writes no output; for an entry of a directory D, the
\* error is a failure of that entry: P is left out of D's children and the
\* scan of D goes on.
C10_ListErrorPropagates ==
    /\ (ret.kind = "raise" /\ ret.exc.op = "iterdir") =>
          /\ ret.val = NoNode
          /\ ListFailed(ret.exc.path)
          /\ \A k \in Frames : stack[k].path # ret.exc.path
          /\ IF stack = <<>>
             THEN mpc = "gather" /\ ret.exc.path = folder_path
             ELSE top.pc = "wait" /\ CurrentEntry = ret.exc.path
    /\ (folder_path # NoPath /\ ListFailed(folder_path)) =>
          /\ stack = <<>> /\ tree = NoTree /\ ~output.written
          /\ Done => exit_code = 1
    /\ \A k \in Frames : Expanding(k) =>
          \A i \in 1..(stack[k].idx - 1) :
              ListFailed(stack[k].entries[i]) =>
                  /\ Skipped(stack[k].entries[i])
                  /\ Len(stack[k].children) = (stack[k].idx - 1) - SkippedBefore(stack[k], stack[k].idx - 1)
    /\ \A e \in AllPaths :
          (Done /\ ListFailed(e) /\ e # folder_path) =>
              /\ Skipped(e)
              /\ IsDirectoryNode(tree.root)
              /\ Parent(e) = folder_path =>
                    Len(tree.root.children) =
                        Cardinality({x \in DirEntries(folder_path) : ~Skipped(x)})

\* C10 witness: the listing of r/B failed; the run ended with exit code 0
\* and the children of r/a and r/c
C10_Witness ==
    /\ Done /\ exit_code = 0 /\ output.written
    /\ ListFailed(p_rB)
    /\ tree.root = DirectoryNode(nm_r, <<FileNode(nm_a), FileNode(nm_c)>>)

====
